---------------------------- MODULE Spec2Model ----------------------------
(***************************************************************************)
(* A model of the content-generation pipeline of src/core/generator.py:    *)
(* the retry decorator, generate_post and its four stages, the placeholder *)
(* fallback of the image stage, and generate_all_platforms.                *)
(* With it, of src/core/brand_voice.py: the loading of the guidelines,     *)
(* get_brand_voice and format_hashtags.                                    *)
(*                                                                         *)
(* Strings are modelled as sequences of runs [src, n]: the first n         *)
(* characters of the text named src.  Concatenation is \o, len() is        *)
(* StrLen, s[:k] is SliceTo, and strip/lstrip/replace act on the runs.     *)
(***************************************************************************)
EXTENDS Integers, Sequences, FiniteSets, TLC

(***************************************************************************)
(* Bounds of the model (not program constants).                            *)
(***************************************************************************)
\* how far below char_limit a model response may be
MaxSlack == 1
\* how far above char_limit a model response may be
MaxOver == 2
\* how many whitespace characters may surround a model response
MaxPad == 1
\* how many items beyond max_hashtags the model may return
MaxExtraTags == 1
\* the largest max_retries the stand-alone retry wrapper is configured with
MaxRetriesBound == 3
\* the last second the wall clock reaches
MaxClock == 1
\* how many times generate_post is called one after the other
MaxRuns == 2
\* the most tone keywords a guidelines file lists
MaxKeywords == 2
\* the largest of the small limits get_character_count_status is called with
MaxStatusLimit == 12
\* how many times `Regenerate Post` is pressed in one session
MaxRegenerations == 1
\* how many times initialize_session_state is called on one session
MaxInitCalls == 2
\* the longest list passed to format_hashtags
MaxFormatTags == 3
\* the most `#` characters a tag passed to format_hashtags starts with
MaxHashes == 2

(***************************************************************************)
(* Strings.                                                                *)
(***************************************************************************)
Max(a, b) == IF a >= b THEN a ELSE b

\* the first n characters of the text src ("" when n = 0)
Chars(src, n) == IF n <= 0 THEN <<>> ELSE <<[src |-> src, n |-> n]>>

Whitespace == {" ", "\n"}

RECURSIVE StrLen(_)
\* len(s)
StrLen(s) == IF s = <<>> THEN 0 ELSE Head(s).n + StrLen(Tail(s))

RECURSIVE Prefix(_, _)
\* the first k characters of s, k >= 0
Prefix(s, k) ==
    IF k <= 0 \/ s = <<>> THEN <<>>
    ELSE IF Head(s).n <= k THEN <<Head(s)>> \o Prefix(Tail(s), k - Head(s).n)
    ELSE Chars(Head(s).src, k)

\* s[:k] of Python: a negative k counts from the end
SliceTo(s, k) == IF k >= 0 THEN Prefix(s, k) ELSE Prefix(s, Max(0, StrLen(s) + k))

RECURSIVE LStripSet(_, _)
\* s with its leading characters that belong to cs removed
LStripSet(s, cs) ==
    IF s = <<>> THEN <<>>
    ELSE IF Head(s).src \in cs THEN LStripSet(Tail(s), cs)
    ELSE s

RECURSIVE RStripSet(_, _)
\* s with its trailing characters that belong to cs removed
RStripSet(s, cs) ==
    IF s = <<>> THEN <<>>
    ELSE IF s[Len(s)].src \in cs THEN RStripSet(SubSeq(s, 1, Len(s) - 1), cs)
    ELSE s

\* str.strip()
Strip(s) == RStripSet(LStripSet(s, Whitespace), Whitespace)

\* str.replace(c, "")
Remove(s, c) == SelectSeq(s, LAMBDA r : r.src # c)

\* whether character c occurs in s
Contains(s, c) == \E i \in 1..Len(s) : s[i].src = c

RECURSIVE Join(_, _)
\* sep.join(list)
Join(list, sep) ==
    IF list = <<>> THEN <<>>
    ELSE IF Len(list) = 1 THEN list[1]
    ELSE list[1] \o sep \o Join(Tail(list), sep)

(***************************************************************************)
(* Platform specifications (config.py).                                    *)
(***************************************************************************)
\* the keys of PLATFORM_SPECS in the order of the dict
PlatformOrder == <<"linkedin", "twitter", "facebook", "nextdoor">>

PLATFORM_SPECS ==
    [linkedin |-> [char_limit |-> 3000, image_size |-> <<1200, 627>>, max_hashtags |-> 5],
     twitter  |-> [char_limit |-> 280, image_size |-> <<1200, 675>>, max_hashtags |-> 2],
     facebook |-> [char_limit |-> 63206, image_size |-> <<1200, 630>>, max_hashtags |-> 5],
     nextdoor |-> [char_limit |-> 5000, image_size |-> <<1200, 900>>, max_hashtags |-> 3]]

Platforms == DOMAIN PLATFORM_SPECS


(***************************************************************************)
(* Exceptions.  An exception object is [kind, site, id]: its class, the    *)
(* call that raised it and the attempt during which it was raised, so two  *)
(* attempts never raise the same object.                                   *)
(***************************************************************************)
ExceptionKinds == {"APIError", "ValueError", "KeyboardInterrupt"}

\* isinstance(e, cls) for the classes used here
IsInstance(kind, cls) ==
    \/ cls = "BaseException"
    \/ cls = "Exception" /\ kind # "KeyboardInterrupt"
    \/ cls = kind

\* an except clause that catches whatever is raised
Catches_everything(exceptions, e) == TRUE

\* whether `except exceptions as e` catches e
Catches(exceptions, e) == \E cls \in exceptions : IsInstance(e.kind, cls)

\* the default of the decorator: exceptions=(Exception,)
DefaultExceptions == {"Exception"}

(***************************************************************************)
(* retry_with_exponential_backoff.  A wrapper in progress is a record:     *)
(* the decorator's arguments, the locals attempt, delay and last_exception *)
(* of wrapper(), its outcome (state, value), and two histories kept for    *)
(* the properties: log (the outcome of every invocation of func) and       *)
(* sleeps (the argument of every time.sleep).                              *)
(***************************************************************************)
VARIABLES rt, req, pc, brand_voice, content, hashtags, image_prompt, image_path,
          draft, files, clock, ret, posts, apc, n, guidelines, session

vars == <<rt, req, pc, brand_voice, content, hashtags, image_prompt, image_path,
          draft, files, clock, ret, posts, apc, n, guidelines, session>>

\* last_exception = None
NoException == [kind |-> "None", site |-> "", id |-> 0]

\* entering wrapper(): delay = initial_delay, last_exception = None, attempt 0
wrapper_enter(func, max_retries, initial_delay, exponential_base, exceptions) ==
    [func |-> func, max_retries |-> max_retries, initial_delay |-> initial_delay,
     exponential_base |-> exponential_base, exceptions |-> exceptions,
     attempt |-> 0, delay |-> initial_delay, last_exception |-> NoException,
     state |-> "running", value |-> <<>>, raised |-> NoException,
     log |-> <<>>, sleeps |-> <<>>]

\* no wrapper is active
NoWrapper ==
    [wrapper_enter("none", 0, 0, 0, {}) EXCEPT !.state = "idle"]

\* the exception wrapper() raises once its loop has ended
\* (exception objects are truthy, so `if last_exception` tests for None)
wrapper_after_loop(last_exception) ==
    IF last_exception # NoException THEN last_exception
    ELSE [kind |-> "RuntimeError", site |-> "wrapper", id |-> 0]

\* an except block that sleeps after the last attempt too
wrapper_sleeps_always(attempt, max_retries) == TRUE

\* `if attempt < max_retries`: whether the except block sleeps before the next
\* attempt
wrapper_sleeps(attempt, max_retries) == attempt < max_retries

\* a loop that takes one turn too many
range_one_more(attempt, max_retries) == attempt + 1 < max_retries + 2

\* `for attempt in range(max_retries + 1)`: whether the loop has another turn
\* after the turn `attempt`
range_has_next(attempt, max_retries) == attempt + 1 < max_retries + 1

\* the log entry of an invocation of func that returned
Returned(w) == [kind |-> "ok", site |-> w.func, id |-> Len(w.log) + 1]

\* a wrapper that stores the result and goes on with the loop
wrapper_return_keeps_looping(w, v) ==
    [w EXCEPT !.value = v, !.log = Append(@, [kind |-> "ok", site |-> w.func,
                                                id |-> Len(w.log) + 1]),
              !.attempt = w.attempt + 1,
              !.state = IF w.attempt < w.max_retries THEN "running" ELSE "returned"]

\* `return func(*args, **kwargs)`: func returned v
wrapper_return(w, v) ==
    [w EXCEPT !.state = "returned", !.value = v, !.log = Append(@, Returned(w))]

\* func raised e during this attempt
wrapper_except(w, e) ==
    IF ~Catches(w.exceptions, e)
    THEN [w EXCEPT !.state = "raised", !.raised = e, !.log = Append(@, e)]
    ELSE LET caught == [w EXCEPT !.last_exception = e, !.log = Append(@, e)]
             slept == IF wrapper_sleeps(w.attempt, w.max_retries)
                      THEN [caught EXCEPT !.sleeps = Append(@, w.delay),
                                          !.delay = w.delay * w.exponential_base]
                      ELSE caught
         IN  IF range_has_next(w.attempt, w.max_retries)
             THEN [slept EXCEPT !.attempt = w.attempt + 1]
             ELSE [slept EXCEPT !.state = "raised",
                                !.raised = wrapper_after_loop(slept.last_exception)]

\* the exception func raises in this attempt at `site`
NewException(w, kind, site) == [kind |-> kind, site |-> site, id |-> Len(w.log) + 1]

(***************************************************************************)
(* The external models.  A text-model response is a body of some length    *)
(* with whitespace around it; the lengths explored lie around the          *)
(* platform's char_limit.  The fan-out over all platforms is explored with *)
(* fewer response shapes than a single generate_post call.                 *)
(***************************************************************************)
\* the exceptions a model call or the handling of its response raises
TextErrorKinds == {"APIError"}

TextResponse(src, len, lead, trail) ==
    Chars(" ", lead) \o Chars(src, len) \o Chars("\n", trail)

Single == req.call = "generate_post"

ResponseLens(src, char_limit) ==
    IF Single
    THEN (char_limit - MaxSlack)..(char_limit + MaxOver) \cup {0, 10 * char_limit}
    ELSE IF src = "draft" THEN {char_limit, char_limit + 1}
    ELSE {char_limit}

Pads == IF Single THEN 0..MaxPad ELSE {0}

\* a response of the same length whose text ends in a hashtag of its own, as
\* the HASHTAG STRATEGY section of every platform template asks for
TextResponseWithHashtag(src, len, lead, trail) ==
    Chars(" ", lead) \o Chars(src, len - 2) \o Chars("#", 1) \o Chars("word", 1)
        \o Chars("\n", trail)

\* the responses to a prompt asking for the text named src
TextResponses(src, char_limit) ==
    {TextResponse(src, len, lead, trail) :
        len \in ResponseLens(src, char_limit), lead \in Pads, trail \in Pads}
    \cup
    {TextResponseWithHashtag(src, len, lead, trail) :
        len \in {l \in ResponseLens(src, char_limit) : Single /\ l >= 2},
        lead \in Pads, trail \in Pads}

TagNames == <<"tag1", "tag2", "tag3", "tag4", "tag5", "tag6", "tag7", "tag8">>

\* the length of a hashtag's name
TagLen == 3

\* how the model writes one item of its comma-separated list
TagForms == IF Single THEN {"plain", "hash", "padded", "hash_space"} ELSE {"plain"}

TagItem(i, form) ==
    CASE form = "plain" -> Chars(TagNames[i], TagLen)
      [] form = "hash" -> Chars("#", 1) \o Chars(TagNames[i], TagLen)
      [] form = "padded" -> Chars(" ", 1) \o Chars(TagNames[i], TagLen) \o Chars(" ", 1)
      [] form = "hash_space" -> Chars("#", 1) \o Chars(" ", 1) \o Chars(TagNames[i], TagLen)

\* the number of items the model may return when asked for max_hashtags
TagCounts(max_hashtags) ==
    IF Single THEN 0..(max_hashtags + MaxExtraTags)
    ELSE {max_hashtags + 1}

\* a response of k items, comma-separated
HashtagResponse(k, form, lead) ==
    Chars(" ", lead) \o Join([i \in 1..k |-> TagItem(i, form)], Chars(",", 1))

\* what the image model call and the handling of its response can come to:
\* the call raises; the response has no parts; the part has no inline_data;
\* the bytes do not decode; saving fails; an image of the platform's size or
\* of another size is saved
ImageOutcomes ==
    {"transport_error", "no_parts", "no_inline_data", "decode_error", "save_error",
     "image_exact", "image_other_size"}

(***************************************************************************)
(* The pure steps of the pipeline.                                         *)
(***************************************************************************)
\* max_retries of the four decorated stages
StageMaxRetries == 3
\* initial_delay of the three text stages, in seconds
TextInitialDelay == 1
\* initial_delay of the image stage, in seconds
ImageInitialDelay == 2
\* the decorator's default exponential_base
DefaultExponentialBase == 2

\* a stage that goes on with the attempt count, the delay and the histories
\* the stage before it has left
StageWrapper_carried(func, initial_delay) ==
    IF rt.state = "idle"
    THEN wrapper_enter(func, StageMaxRetries, initial_delay,
                       DefaultExponentialBase, DefaultExceptions)
    ELSE [rt EXCEPT !.func = func, !.state = "running"]

\* the wrapper of the stage `func`: the one in progress, or a fresh one when
\* the stage is entered
StageWrapper(func, initial_delay) ==
    IF rt.func = func /\ rt.state = "running" THEN rt
    ELSE wrapper_enter(func, StageMaxRetries, initial_delay,
                       DefaultExponentialBase, DefaultExceptions)

\* a check that sends a draft of exactly char_limit characters to shortening
reaches_limit(result, char_limit) == StrLen(result) >= char_limit

\* `if len(result) > char_limit`
exceeds_limit(result, char_limit) == StrLen(result) > char_limit

Ellipsis == Chars(".", 3)

\* a truncation that forgets to leave room for the ellipsis
truncate_without_reserve(result, char_limit) ==
    SliceTo(result, char_limit) \o Ellipsis

\* `result[: char_limit - 3] + "..."`
truncate_with_ellipsis(result, char_limit) ==
    SliceTo(result, char_limit - 3) \o Ellipsis

\* an end of _regenerate_shorter_content that cuts every rewrite
shorter_content_always_cut(result, char_limit) ==
    truncate_with_ellipsis(result, char_limit)

\* the end of _regenerate_shorter_content: the rewrite, truncated if too long
shorter_content(result, char_limit) ==
    IF exceeds_limit(result, char_limit)
    THEN truncate_with_ellipsis(result, char_limit)
    ELSE result

RECURSIVE Split(_, _)
\* s.split(c)
Split(s, c) ==
    IF ~Contains(s, c) THEN <<s>>
    ELSE LET i == CHOOSE j \in 1..Len(s) :
                    s[j].src = c /\ \A k \in 1..(j - 1) : s[k].src # c
         IN  <<SubSeq(s, 1, i - 1)>> \o Split(SubSeq(s, i + 1, Len(s)), c)

\* list[:k] for k >= 0
ListSliceTo(list, k) == SubSeq(list, 1, IF k <= Len(list) THEN k ELSE Len(list))

\* `[tag.strip().replace("#", "") for tag in result.split(",")]`
split_hashtags(result) ==
    LET parts == Split(result, ",")
    IN  [i \in 1..Len(parts) |-> Remove(Strip(parts[i]), "#")]

\* a parser that keeps everything the model returned
cap_hashtags_missing(list, max_hashtags) == list

\* `hashtags[:max_hashtags]`
cap_hashtags(list, max_hashtags) == ListSliceTo(list, max_hashtags)

\* the parsing of the model's response in _generate_hashtags
parse_hashtags(response, max_hashtags) ==
    cap_hashtags(split_hashtags(Strip(response)), max_hashtags)

\* a formatter that adds the `#` without stripping the one that is there
format_hashtags_no_lstrip(list) ==
    Join([i \in 1..Len(list) |-> Chars("#", 1) \o list[i]], Chars(" ", 1))

\* BrandVoice.format_hashtags
format_hashtags(list) ==
    Join([i \in 1..Len(list) |-> Chars("#", 1) \o LStripSet(list[i], {"#"})],
         Chars(" ", 1))

\* `content = f"{content}\n\n{hashtag_str}"`
append_hashtags(text, list) == text \o Chars("\n", 2) \o format_hashtags(list)

\* a text of the guidelines file or of the source whose length plays no part,
\* named by src and counted as one character
Text(src) == Chars(src, 1)

\* a brand_guidelines.yaml with a primary voice, tone keywords and preferences
\* for two of the platforms
FullGuidelines ==
    [brand_voice |-> [primary |-> Text("primary"),
                      tone_keywords |-> <<Text("keyword1"), Text("keyword2")>>],
     platform_preferences |->
        [p \in {"linkedin", "twitter"} |->
            [focus |-> Text("focus of") \o Text(p), style |-> Text("style of") \o Text(p)]]]

\* a brand_guidelines.yaml that is a mapping without any of these keys
\* (primary <<>>: the key is missing)
EmptyGuidelines ==
    [brand_voice |-> [primary |-> <<>>, tone_keywords |-> <<>>],
     platform_preferences |->
        [p \in {} |-> [focus |-> <<>>, style |-> <<>>]]]

GuidelineDocs == {FullGuidelines, EmptyGuidelines}

\* a get_brand_voice whose answer changes from one call to the next
get_brand_voice_drifting(platform) ==
    Text("primary") \o Chars("variation", n.gp[platform])

\* BrandVoice.get_brand_voice(platform): the voice derived from the guidelines
get_brand_voice(platform) ==
    LET primary == IF guidelines.brand_voice.primary = <<>>
                   THEN Text("professional and engaging")
                   ELSE guidelines.brand_voice.primary
        keywords_str == Join(guidelines.brand_voice.tone_keywords, Text(", "))
        platform_prefs ==
            IF platform \in DOMAIN guidelines.platform_preferences
            THEN LET prefs == guidelines.platform_preferences[platform]
                 IN  Text(" For ") \o Text(platform) \o Text(": ") \o prefs.style
                         \o Text(", focusing on ") \o prefs.focus \o Text(".")
            ELSE <<>>
    IN  primary
        \o (IF keywords_str # <<>> THEN Text(", emphasizing ") \o keywords_str ELSE <<>>)
        \o platform_prefs

(***************************************************************************)
(* Files under generated_images/.  A path is [platform, timestamp, name,   *)
(* ext]: generated_images/{platform}_{timestamp}{name}{ext}.               *)
(***************************************************************************)
NoPath == [platform |-> "", timestamp |-> 0, name |-> "", ext |-> ""]

\* os.path.join(output_dir, f"{platform}_{timestamp}.png")
generated_path(platform, timestamp) ==
    [platform |-> platform, timestamp |-> timestamp, name |-> "", ext |-> ".png"]

\* os.path.join(output_dir, f"{platform}_{timestamp}_placeholder.png")
placeholder_path(platform, timestamp) ==
    [platform |-> platform, timestamp |-> timestamp, name |-> "_placeholder",
     ext |-> ".png"]

\* image_path.replace(".png", "_prompt.txt")
prompt_path(path) == [path EXCEPT !.ext = IF @ = ".png" THEN "_prompt.txt" ELSE @]

\* a write that leaves nothing on disk
WriteFile_lost(fs, f) == fs

\* writing a file creates it or replaces the one of that path
WriteFile(fs, f) == {g \in fs : g.path # f.path} \cup {f}

ImageFile(path, size) ==
    [path |-> path, size |-> size, platform |-> "", dimensions |-> <<>>, prompt |-> <<>>]

PromptFile(path, platform, size, prompt) ==
    [path |-> path, size |-> <<>>, platform |-> platform, dimensions |-> size,
     prompt |-> prompt]

\* the size of the canvas of the placeholder
placeholder_size(platform) == PLATFORM_SPECS[platform].image_size

\* a placeholder that is saved without its prompt file
placeholder_without_sidecar(fs, platform, prompt, timestamp) ==
    WriteFile(fs, ImageFile(placeholder_path(platform, timestamp),
                            PLATFORM_SPECS[platform].image_size))

\* the files _create_placeholder_image leaves behind
placeholder_files(fs, platform, prompt, timestamp) ==
    LET path == placeholder_path(platform, timestamp)
    IN  WriteFile(WriteFile(fs, ImageFile(path, placeholder_size(platform))),
                  PromptFile(prompt_path(path), platform,
                             PLATFORM_SPECS[platform].image_size, prompt))

\* whether the outcome is an exception raised inside the try block
image_raises(outcome) == outcome \notin {"image_exact", "image_other_size"}

\* the class of the exception the outcome raises
ImageErrorKind(outcome) ==
    IF outcome \in {"no_parts", "no_inline_data"} THEN "ValueError" ELSE "APIError"

\* a handler that catches the two ValueErrors of the try block only
image_except_value_error_only(e) == Catches({"ValueError"}, e)

\* `except Exception as e` of _generate_image
image_except_catches(e) == Catches({"Exception"}, e)

\* a loop without its try/except
all_platforms_catches_nothing(e) == FALSE

\* `except Exception as e` of generate_all_platforms
all_platforms_catches(e) == Catches({"Exception"}, e)

\* the size of the image the model returned
DecodedSize(platform, outcome) ==
    IF outcome = "image_exact" THEN PLATFORM_SPECS[platform].image_size
    ELSE <<1024, 1024>>

\* the size of the image that is saved: resized when it differs from the target
saved_size(platform, size) ==
    IF size # PLATFORM_SPECS[platform].image_size
    THEN PLATFORM_SPECS[platform].image_size
    ELSE size

(***************************************************************************)
(* generate_post.                                                          *)
(***************************************************************************)
InvalidPlatform == "not_a_real_platform"

PlatformKeys == Platforms \cup {InvalidPlatform}

\* the platform of the generate_post call in progress
CurPlatform ==
    IF req.call = "generate_all_platforms" THEN PlatformOrder[apc] ELSE req.platform

Spec_(platform) == PLATFORM_SPECS[platform]

\* the counters of one generate_post run, zeroed when it starts
FreshRun(counts, platform) ==
    [counts EXCEPT !.gp[platform] = @ + 1, !.ran = {}, !.image_calls = 0,
                   !.image_failures = 0, !.image_outcome = "", !.placeholders = 0,
                   !.items = 0, !.bv_calls = 0, !.voice = <<>>, !.calls = <<>>,
                   !.order = <<>>, !.early = FALSE, !.prompt_content = <<>>,
                   !.text_calls = 0]

\* the step `stage` of generate_post begins: at its first invocation it is
\* added to the order of the run, and it is noted whether the wrapper of the
\* step before it had not returned yet
Started(counts, stage) ==
    IF \E i \in 1..Len(counts.order) : counts.order[i] = stage THEN counts
    ELSE [counts EXCEPT !.order = Append(@, stage),
                        !.early = @ \/ rt.state \notin {"returned", "idle"}]

\* a text-model call of _generate_content, as recorded in the counters: the
\* prompt (site), whether it answered, and its answer, stripped
TextCall(site, ok, text) == [site |-> site, ok |-> ok, text |-> text]

\* a generate_post that resolves the brand voice before it checks the platform
resolves_before_check(platform, arg) == arg = <<>>

\* lines 160-165: whether get_brand_voice is called: the platform passed the
\* check and no brand_voice was passed (None is <<>>)
resolves_brand_voice(platform, arg) == platform \in Platforms /\ arg = <<>>

\* a generate_post that goes on without hashtags when their stage fails
generate_post_skips_failed_hashtags(func) ==
    IF func = "_generate_hashtags" THEN "image_prompt" ELSE "raised"

\* generate_post has no handler: an exception of a stage leaves it at once
generate_post_on_error(func) == "raised"

\* a generate_post that builds the image prompt before the hashtags
AfterContent_prompt_first == "image_prompt"

\* the stage after content generation
AfterContent == IF req.include_hashtags THEN "hashtags" ELSE "image_prompt"

\* a stage's call raised e: the wrapper retries, or generate_post raises
\* (counts: the counters after the call)
StageRaises(w, e, retry_pc, counts) ==
    LET w2 == wrapper_except(w, e)
    IN  /\ rt' = w2
        /\ IF w2.state = "raised" /\ generate_post_on_error(w.func) = "raised"
           THEN /\ pc' = "raised"
                /\ ret' = [kind |-> "raised", error |-> w2.raised]
                /\ n' = [counts EXCEPT !.failed = @ \cup {CurPlatform}]
           ELSE /\ pc' = IF w2.state = "raised" THEN generate_post_on_error(w.func)
                         ELSE retry_pc
                /\ ret' = ret
                /\ n' = counts

\* lines 160-166: the platform check and the resolution of the brand voice
\* (no wrapper() call of an earlier run is in progress)
generate_post_enter ==
    /\ pc = "start"
    /\ content' = <<>> /\ hashtags' = <<>> /\ image_prompt' = <<>>
    /\ image_path' = NoPath /\ draft' = <<>>
    /\ n' = [FreshRun(n, CurPlatform) EXCEPT
                !.failed = IF CurPlatform \notin Platforms
                           THEN @ \cup {CurPlatform} ELSE @,
                !.bv_calls = IF resolves_brand_voice(CurPlatform, req.brand_voice)
                             THEN 1 ELSE 0,
                !.order = IF CurPlatform \in Platforms
                          THEN <<"validate", "brand_voice">> ELSE <<"validate">>]
    /\ brand_voice' = IF resolves_brand_voice(CurPlatform, req.brand_voice)
                      THEN get_brand_voice(CurPlatform)
                      ELSE req.brand_voice
    /\ IF CurPlatform \notin Platforms
       THEN /\ pc' = "raised"
            /\ ret' = [kind |-> "raised",
                       error |-> [kind |-> "ValueError", site |-> "generate_post", id |-> 0]]
       ELSE /\ pc' = "content"
            /\ ret' = [kind |-> "none"]
    /\ rt' = NoWrapper
    /\ UNCHANGED <<req, files, clock, posts, apc, guidelines, session>>

\* _generate_content up to the length check: the draft call
_generate_content ==
    /\ pc = "content"
    /\ LET w == StageWrapper("_generate_content", TextInitialDelay)
           char_limit == Spec_(CurPlatform).char_limit
           counts == [Started(n, "_generate_content") EXCEPT !.ran = @ \cup {"_generate_content"},
                               !.voice = brand_voice]
       IN  \/ \E kind \in TextErrorKinds :
                /\ StageRaises(w, NewException(w, kind, "draft"), "content",
                               [counts EXCEPT !.calls =
                                    <<TextCall("draft", FALSE, <<>>)>>,
                                    !.text_calls = @ + 1])
                /\ UNCHANGED <<content, draft>>
           \/ \E response \in TextResponses("draft", char_limit) :
                LET result == Strip(response)
                IN  /\ n' = [counts EXCEPT !.calls =
                                    <<TextCall("draft", TRUE, result)>>,
                                    !.text_calls = @ + 1]
                    /\ IF exceeds_limit(result, char_limit)
                       THEN /\ draft' = result
                            /\ rt' = w
                            /\ pc' = "shorten"
                            /\ UNCHANGED <<content, ret>>
                       ELSE /\ rt' = wrapper_return(w, result)
                            /\ content' = rt'.value
                            /\ pc' = AfterContent
                            /\ UNCHANGED <<draft, ret>>
    /\ UNCHANGED <<req, brand_voice, hashtags, image_prompt, image_path, files,
                   clock, posts, apc, guidelines, session>>

\* a shortening call with a retry of its own: it alone is issued again
shorten_retry_own == "shorten"

\* where the retry goes on after a failed shortening call: the exception
\* leaves _generate_content, whose wrapper calls it again from its first line
shorten_retry_pc == "content"

\* _regenerate_shorter_content, and the return of _generate_content after it
_regenerate_shorter_content ==
    /\ pc = "shorten"
    /\ LET char_limit == Spec_(CurPlatform).char_limit
       IN  \/ \E kind \in TextErrorKinds :
                /\ StageRaises(rt, NewException(rt, kind, "shorten"), shorten_retry_pc,
                               [n EXCEPT !.calls =
                                    Append(@, TextCall("shorten", FALSE, <<>>)),
                                    !.text_calls = @ + 1])
                /\ UNCHANGED content
           \/ \E response \in TextResponses("rewrite", char_limit) :
                /\ rt' = wrapper_return(rt, shorter_content(Strip(response), char_limit))
                /\ content' = rt'.value
                /\ pc' = AfterContent
                /\ n' = [n EXCEPT !.calls =
                            Append(@, TextCall("shorten", TRUE, Strip(response))),
                            !.text_calls = @ + 1]
                /\ UNCHANGED ret
    /\ draft' = <<>>
    /\ UNCHANGED <<req, brand_voice, hashtags, image_prompt, image_path, files,
                   clock, posts, apc, guidelines, session>>

\* _generate_hashtags, and lines 174-177 of generate_post
_generate_hashtags ==
    /\ pc = "hashtags"
    /\ LET w == StageWrapper("_generate_hashtags", TextInitialDelay)
           max_hashtags == Spec_(CurPlatform).max_hashtags
           counts == [Started(n, "_generate_hashtags") EXCEPT !.ran = @ \cup {"_generate_hashtags"}, !.calls = <<>>,
                         !.text_calls = 0]
       IN  \/ \E kind \in TextErrorKinds :
                /\ StageRaises(w, NewException(w, kind, "hashtags"), "hashtags", counts)
                /\ UNCHANGED <<content, hashtags>>
           \/ \E k \in TagCounts(max_hashtags), form \in TagForms, lead \in Pads :
                /\ rt' = wrapper_return(w,
                            parse_hashtags(HashtagResponse(k, form, lead), max_hashtags))
                /\ hashtags' = rt'.value
                /\ content' = append_hashtags(content, hashtags')
                /\ pc' = "image_prompt"
                /\ n' = [counts EXCEPT !.items = k]
                /\ UNCHANGED ret
    /\ UNCHANGED <<req, brand_voice, image_prompt, image_path, draft, files,
                   clock, posts, apc, guidelines, session>>

\* _create_image_prompt
_create_image_prompt ==
    /\ pc = "image_prompt"
    /\ LET w == StageWrapper("_create_image_prompt", TextInitialDelay)
           counts == [Started(n, "_create_image_prompt") EXCEPT
                         !.ran = @ \cup {"_create_image_prompt"}, !.calls = <<>>,
                         !.text_calls = 0,
                         !.prompt_content = content]
       IN  \/ \E kind \in TextErrorKinds :
                /\ StageRaises(w, NewException(w, kind, "image_prompt"), "image_prompt",
                               counts)
                /\ UNCHANGED image_prompt
           \/ \E lead \in Pads, trail \in Pads :
                /\ rt' = wrapper_return(w, Strip(TextResponse("visual", 1, lead, trail)))
                /\ image_prompt' = rt'.value
                /\ pc' = "image"
                /\ n' = counts
                /\ UNCHANGED ret
    /\ UNCHANGED <<req, brand_voice, content, hashtags, image_path, draft, files,
                   clock, posts, apc, guidelines, session>>

\* _generate_image with _create_placeholder_image
_generate_image ==
    /\ pc = "image"
    /\ LET w == StageWrapper("_generate_image", ImageInitialDelay)
           platform == CurPlatform
       IN  \E outcome \in ImageOutcomes :
             LET e == NewException(w, ImageErrorKind(outcome), outcome)
                 called == [Started(n, "_generate_image") EXCEPT !.ran = @ \cup {"_generate_image"},
                                     !.image_calls = @ + 1,
                                     !.image_outcome = outcome]
                 failed == [called EXCEPT !.image_failures = @ + 1]
             IN  IF ~image_raises(outcome)
                 THEN /\ image_path' = generated_path(platform, clock)
                      /\ files' = WriteFile(files,
                            ImageFile(image_path',
                                      saved_size(platform, DecodedSize(platform, outcome))))
                      /\ rt' = wrapper_return(w, image_path')
                      /\ pc' = "assemble"
                      /\ n' = called
                      /\ UNCHANGED ret
                 ELSE IF image_except_catches(e)
                 THEN /\ image_path' = placeholder_path(platform, clock)
                      /\ files' = placeholder_files(files, platform, image_prompt, clock)
                      /\ rt' = wrapper_return(w, image_path')
                      /\ pc' = "assemble"
                      /\ n' = [failed EXCEPT !.placeholders = @ + 1]
                      /\ UNCHANGED ret
                 ELSE /\ StageRaises(w, e, "image", failed)
                      /\ UNCHANGED <<image_path, files>>
    /\ UNCHANGED <<req, brand_voice, content, hashtags, image_prompt, draft,
                   clock, posts, apc, guidelines, session>>

\* a post whose char_count is the length of the content as _generate_content
\* returned it, without the hashtags appended since
post_data_count_before_hashtags(platform) ==
    [content |-> content, hashtags |-> hashtags, image_path |-> image_path,
     image_prompt |-> image_prompt, platform |-> platform,
     metadata |-> [char_count |-> IF req.include_hashtags
                                  THEN StrLen(content) - 2 - StrLen(format_hashtags(hashtags))
                                  ELSE StrLen(content),
                   char_limit |-> Spec_(platform).char_limit,
                   image_size |-> Spec_(platform).image_size,
                   brand_voice |-> brand_voice]]

\* lines 185-201: the post record (metadata.timestamp, the microsecond time of
\* assembly, is left out: nothing reads it)
post_data(platform) ==
    [content |-> content, hashtags |-> hashtags, image_path |-> image_path,
     image_prompt |-> image_prompt, platform |-> platform,
     metadata |-> [char_count |-> StrLen(content),
                   char_limit |-> Spec_(platform).char_limit,
                   image_size |-> Spec_(platform).image_size,
                   brand_voice |-> brand_voice]]

generate_post_return ==
    /\ pc = "assemble"
    /\ ret' = [kind |-> "returned", post |-> post_data(CurPlatform)]
    /\ pc' = "returned"
    /\ n' = Started(n, "assemble")
    /\ UNCHANGED <<rt, req, brand_voice, content, hashtags, image_prompt, image_path,
                   draft, files, clock, posts, apc, guidelines, session>>

\* the wall clock advances while the pipeline runs; only the image stage reads
\* it, so the seconds that pass before that are taken there
Tick ==
    /\ pc = "image"
    /\ clock < MaxClock
    /\ clock' = clock + 1
    /\ UNCHANGED <<rt, req, pc, brand_voice, content, hashtags, image_prompt,
                   image_path, draft, files, ret, posts, apc, n, guidelines, session>>

(***************************************************************************)
(* generate_all_platforms.                                                 *)
(***************************************************************************)
\* `posts[platform] = None`
NoneEntry == [none |-> TRUE]

\* `posts[platform] = self.generate_post(...)`
PostEntry(post) == [none |-> FALSE, post |-> post]

\* a loop that stays on the platform it has just handled
next_platform_same(i) == i

\* `for platform in Config.PLATFORM_SPECS.keys()`: the index of the next turn
next_platform(i) == i + 1

\* one turn of the loop ends: the post is stored, or the exception is caught
\* and None is stored, and the loop goes on to the next platform or returns
generate_all_platforms_next ==
    /\ req.call = "generate_all_platforms"
    /\ apc \in 1..Len(PlatformOrder)
    /\ pc \in {"returned", "raised"}
    /\ IF ret.kind = "raised" /\ ~all_platforms_catches(ret.error)
       THEN /\ pc' = "all_raised"
            /\ UNCHANGED <<posts, apc>>
       ELSE /\ posts' = (CurPlatform :>
                           (IF ret.kind = "returned" THEN PostEntry(ret.post)
                            ELSE NoneEntry)) @@ posts
            /\ apc' = next_platform(apc)
            /\ pc' = IF apc < Len(PlatformOrder) THEN "start" ELSE "all_returned"
    /\ UNCHANGED <<rt, req, brand_voice, content, hashtags, image_prompt, image_path,
                   draft, files, clock, ret, n, guidelines, session>>

(***************************************************************************)
(* The retry wrapper on its own, around an operation that returns or       *)
(* raises as it pleases.                                                   *)
(***************************************************************************)
\* the value the operation returns from its k-th invocation
SuccessValue(k) == [val |-> "success", id |-> k]

func_returns ==
    /\ pc = "retry"
    /\ rt.state = "running"
    /\ rt' = wrapper_return(rt, SuccessValue(Len(rt.log) + 1))
    /\ UNCHANGED <<req, pc, brand_voice, content, hashtags, image_prompt, image_path,
                   draft, files, clock, ret, posts, apc, n, guidelines, session>>

func_raises ==
    /\ pc = "retry"
    /\ rt.state = "running"
    /\ \E kind \in ExceptionKinds : rt' = wrapper_except(rt, NewException(rt, kind, "func"))
    /\ UNCHANGED <<req, pc, brand_voice, content, hashtags, image_prompt, image_path,
                   draft, files, clock, ret, posts, apc, n, guidelines, session>>

(***************************************************************************)
(* st.session_state of the review UI: the keys it holds and their values.  *)
(* generator and brand_voice hold objects, told apart by an identity; the  *)
(* value of a key that is not in the session plays no part.                *)
(***************************************************************************)
SessionKeys == {"generated_posts", "generator", "brand_voice", "generation_in_progress"}

\* a session without any key
NoSession ==
    [keys |-> {}, generated_posts |-> <<>>, generator |-> 0, brand_voice |-> 0,
     generation_in_progress |-> FALSE]

\* `if "generated_posts" not in st.session_state: ... = {}`
init_generated_posts(s) ==
    IF "generated_posts" \in s.keys THEN s
    ELSE [s EXCEPT !.keys = @ \cup {"generated_posts"}, !.generated_posts = <<>>]

\* `if "generator" not in st.session_state: ... = SocialMediaGenerator()`
init_generator(s, object) ==
    IF "generator" \in s.keys THEN s
    ELSE [s EXCEPT !.keys = @ \cup {"generator"}, !.generator = object]

\* `if "brand_voice" not in st.session_state: ... = BrandVoice()`
init_brand_voice(s, object) ==
    IF "brand_voice" \in s.keys THEN s
    ELSE [s EXCEPT !.keys = @ \cup {"brand_voice"}, !.brand_voice = object]

\* an initialisation that clears the flag whether it is there or not
init_generation_in_progress_reset(s) ==
    [s EXCEPT !.keys = @ \cup {"generation_in_progress"},
              !.generation_in_progress = FALSE]

\* `if "generation_in_progress" not in st.session_state: ... = False`
init_generation_in_progress(s) ==
    IF "generation_in_progress" \in s.keys THEN s
    ELSE [s EXCEPT !.keys = @ \cup {"generation_in_progress"},
                   !.generation_in_progress = FALSE]

(***************************************************************************)
(* The specifications.                                                     *)
(***************************************************************************)
\* counters kept for the properties: gp, the calls of generate_post per
\* platform, and failed, the platforms whose call raised; and of the run in
\* progress: ran, the stages invoked; image_calls, image_failures and
\* image_outcome, the calls of the image model, those that failed and what the
\* last came to; placeholders, the calls of _create_placeholder_image; items,
\* the number of items the text model wrote in its hashtag list; bv_calls, the
\* calls of get_brand_voice; voice, the brand_voice passed to _generate_content;
\* calls, the text-model calls of the latest attempt of the content stage,
\* kept until the next stage begins; order, the steps of generate_post in the
\* order of their first invocation; early, whether a step began before the
\* one before it had returned; prompt_content, the content passed to
\* _create_image_prompt; text_calls, the text-model calls of the content
\* stage over all its attempts, kept until the next stage begins
ZeroCounts ==
    [gp |-> [p \in PlatformKeys |-> 0], failed |-> {}, ran |-> {}, image_calls |-> 0,
     image_failures |-> 0, image_outcome |-> "", placeholders |-> 0, items |-> 0,
     bv_calls |-> 0, voice |-> <<>>, calls |-> <<>>, order |-> <<>>, early |-> FALSE,
     prompt_content |-> <<>>, text_calls |-> 0]

\* None, or a voice of the caller's
BrandVoiceArgs == {<<>>, Text("extremely casual and fun")}

\* nothing generated yet
InitLocals ==
    /\ brand_voice = <<>> /\ content = <<>> /\ hashtags = <<>>
    /\ image_prompt = <<>> /\ image_path = NoPath /\ draft = <<>>
    /\ files = {} /\ clock = 0 /\ ret = [kind |-> "none"] /\ posts = <<>>
    /\ n = ZeroCounts

\* the generator used outside the UI
InitCommon ==
    /\ InitLocals
    /\ session = NoSession

\* one call of generate_post
Init ==
    /\ InitCommon
    /\ req \in [call : {"generate_post"}, platform : PlatformKeys,
                brand_voice : BrandVoiceArgs, include_hashtags : BOOLEAN]
    /\ rt = NoWrapper
    /\ pc = "start"
    /\ apc = 0
    /\ guidelines = FullGuidelines

NextPost ==
    \/ generate_post_enter
    \/ _generate_content
    \/ _regenerate_shorter_content
    \/ _generate_hashtags
    \/ _create_image_prompt
    \/ _generate_image
    \/ generate_post_return
    \/ Tick

Next == NextPost

Spec == Init /\ [][Next]_vars

\* one call of generate_all_platforms
InitAll ==
    /\ InitCommon
    /\ req \in [call : {"generate_all_platforms"}, platform : {""},
                brand_voice : BrandVoiceArgs, include_hashtags : BOOLEAN]
    /\ rt = NoWrapper
    /\ pc = "start"
    /\ apc = 1
    /\ guidelines = FullGuidelines

NextAll == NextPost \/ generate_all_platforms_next

SpecAll == InitAll /\ [][NextAll]_vars

(***************************************************************************)
(* Calls of generate_post and of generate_all_platforms whose steps are    *)
(* taken sooner or later: a model call that has been made returns or       *)
(* raises, a sleep that has begun ends, and the interpreter goes on to the *)
(* next statement.  The fan-out begins at the last clock reading explored, *)
(* so that its posts carry one timestamp.                                  *)
(***************************************************************************)
InitLive ==
    \/ /\ brand_voice = <<>> /\ content = <<>> /\ hashtags = <<>>
       /\ image_prompt = <<>> /\ image_path = NoPath /\ draft = <<>>
       /\ files = {} /\ clock = MaxClock /\ ret = [kind |-> "none"] /\ posts = <<>>
       /\ n = ZeroCounts
       /\ session = NoSession
       /\ req \in [call : {"generate_all_platforms"}, platform : {""},
                   brand_voice : BrandVoiceArgs, include_hashtags : BOOLEAN]
       /\ rt = NoWrapper
       /\ pc = "start"
       /\ apc = 1
       /\ guidelines = FullGuidelines
    \/ /\ InitCommon
       /\ req \in [call : {"generate_post_live"}, platform : PlatformKeys,
                   brand_voice : BrandVoiceArgs, include_hashtags : BOOLEAN]
       /\ rt = NoWrapper
       /\ pc = "start"
       /\ apc = 0
       /\ guidelines = FullGuidelines

NextLive == NextAll

SpecLive == InitLive /\ [][NextLive]_vars /\ WF_vars(NextLive)

\* one call of a function decorated with retry_with_exponential_backoff
InitRetry ==
    /\ InitCommon
    /\ req = [call |-> "retry", platform |-> "", brand_voice |-> <<>>,
              include_hashtags |-> FALSE]
    /\ \E max_retries \in 0..MaxRetriesBound, initial_delay \in {1, 2},
          exponential_base \in {2, 3},
          exceptions \in {DefaultExceptions, {"ValueError"}} :
            rt = wrapper_enter("func", max_retries, initial_delay, exponential_base,
                               exceptions)
    /\ pc = "retry"
    /\ apc = 0
    /\ guidelines = FullGuidelines

NextRetry == func_returns \/ func_raises

SpecRetry == InitRetry /\ [][NextRetry]_vars

(***************************************************************************)
(* generate_post called again and again on one generator, as the CLI and   *)
(* the review UI do; posts is the sequence of the posts returned so far.   *)
(***************************************************************************)
\* the platforms of the repeated calls: one with platform preferences in
\* FullGuidelines and one without
RepeatPlatforms == {"linkedin", "facebook"}

generate_post_again ==
    /\ req.call = "generate_post_repeated"
    /\ pc \in {"returned", "raised"}
    /\ apc < MaxRuns
    /\ posts' = IF ret.kind = "returned" THEN Append(posts, ret.post) ELSE posts
    /\ \E platform \in RepeatPlatforms : req' = [req EXCEPT !.platform = platform]
    /\ apc' = apc + 1
    /\ pc' = "start"
    /\ UNCHANGED <<rt, brand_voice, content, hashtags, image_prompt, image_path,
                   draft, files, clock, ret, n, guidelines, session>>

InitRepeat ==
    /\ InitCommon
    /\ req \in [call : {"generate_post_repeated"}, platform : RepeatPlatforms,
                brand_voice : BrandVoiceArgs, include_hashtags : BOOLEAN]
    /\ rt = NoWrapper
    /\ pc = "start"
    /\ apc = 1
    /\ guidelines \in GuidelineDocs

NextRepeat == NextPost \/ generate_post_again

SpecRepeat == InitRepeat /\ [][NextRepeat]_vars

(***************************************************************************)
(* Constructing a BrandVoice: _load_guidelines reads the guidelines file,  *)
(* which may be missing, unreadable, malformed, or hold a YAML document of *)
(* any top-level type; get_brand_voice is then asked for a voice.          *)
(***************************************************************************)
\* self.guidelines before _load_guidelines has returned: never assigned
NoGuidelines ==
    [brand_voice |-> [primary |-> Text("unassigned"), tone_keywords |-> <<>>],
     platform_preferences |-> [p \in {} |-> [focus |-> <<>>, style |-> <<>>]]]

Keywords == <<Text("keyword1"), Text("keyword2"), Text("keyword3")>>

\* the mappings a guidelines file may hold
MappingDocs ==
    {[brand_voice |-> [primary |-> primary, tone_keywords |-> SubSeq(Keywords, 1, k)],
      platform_preferences |->
         [p \in ps |-> [focus |-> Text("focus of") \o Text(p),
                        style |-> Text("style of") \o Text(p)]]] :
        primary \in {<<>>, Text("primary")}, k \in 0..MaxKeywords,
        ps \in SUBSET {"linkedin", "twitter"}}

\* what is at guidelines_path: no file; a file that cannot be opened; a file
\* that is not YAML; a YAML list, scalar or empty document; a YAML mapping
GuidelineFiles ==
    [state : {"missing", "unreadable", "malformed", "list", "scalar", "null"},
     doc : {NoGuidelines}]
    \cup [state : {"mapping"}, doc : MappingDocs]

\* the exception raised inside the try block of _load_guidelines ("" if none):
\* by open(), by yaml.safe_load(), or by the isinstance check
load_try_raises(file) ==
    CASE file.state = "unreadable" -> "OSError"
      [] file.state = "malformed" -> "YAMLError"
      [] file.state \in {"list", "scalar", "null"} -> "ValueError"
      [] OTHER -> ""

\* the message of the exception raised inside the try block
load_try_message(file) ==
    CASE file.state = "unreadable" -> "Permission denied"
      [] file.state = "malformed" -> "while parsing"
      [] file.state \in {"list", "scalar", "null"} ->
            "Brand guidelines must be a YAML dictionary"
      [] OTHER -> ""

\* the two handlers of the try block, in order: `except yaml.YAMLError`, then
\* `except Exception`; each raises a new exception whose message embeds the
\* message of the one it caught
load_except(kind, message) ==
    IF IsInstance(kind, "YAMLError")
    THEN [kind |-> "ValueError", message |-> <<"Invalid YAML in brand guidelines file", message>>]
    ELSE IF IsInstance(kind, "Exception")
    THEN [kind |-> "RuntimeError", message |-> <<"Failed to load brand guidelines", message>>]
    ELSE [kind |-> kind, message |-> <<message>>]

\* BrandVoice.__init__ with _load_guidelines
_load_guidelines ==
    /\ pc = "construct"
    /\ IF req.file.state = "missing"
       THEN /\ ret' = [kind |-> "raised",
                       error |-> [kind |-> "FileNotFoundError",
                                  message |-> <<"Brand guidelines not found">>]]
            /\ pc' = "construct_raised"
            /\ UNCHANGED guidelines
       ELSE IF load_try_raises(req.file) # ""
       THEN /\ ret' = [kind |-> "raised",
                       error |-> load_except(load_try_raises(req.file),
                                             load_try_message(req.file))]
            /\ pc' = "construct_raised"
            /\ UNCHANGED guidelines
       ELSE /\ guidelines' = req.file.doc
            /\ ret' = [kind |-> "constructed"]
            /\ pc' = "constructed"
    /\ UNCHANGED <<rt, req, brand_voice, content, hashtags, image_prompt, image_path,
                   draft, files, clock, posts, apc, n, session>>

\* a call of get_brand_voice on the constructed object (platform "": None)
get_brand_voice_call ==
    /\ pc = "constructed"
    /\ \E platform \in Platforms \cup {""} :
          /\ brand_voice' = get_brand_voice(platform)
          /\ ret' = [kind |-> "voice", platform |-> platform]
    /\ pc' = "voice"
    /\ UNCHANGED <<rt, req, content, hashtags, image_prompt, image_path,
                   draft, files, clock, posts, apc, n, guidelines, session>>

InitLoad ==
    /\ InitCommon
    /\ req \in [call : {"BrandVoice"}, file : GuidelineFiles]
    /\ rt = NoWrapper
    /\ pc = "construct"
    /\ apc = 0
    /\ guidelines = NoGuidelines

NextLoad == _load_guidelines \/ get_brand_voice_call

SpecLoad == InitLoad /\ [][NextLoad]_vars

(***************************************************************************)
(* BrandVoice.format_hashtags on its own, applied to a list of tags that   *)
(* start with zero or more `#`.                                            *)
(***************************************************************************)
\* a tag: `hashes` leading `#`, then a name (possibly empty)
FormatTag(hashes, name) ==
    Chars("#", hashes) \o (IF name = "" THEN <<>> ELSE Chars(name, TagLen))

FormatTags == {FormatTag(h, name) : h \in 0..MaxHashes, name \in {"", "tag1", "tag2"}}

FormatLists == UNION {[1..k -> FormatTags] : k \in 0..MaxFormatTags}

format_hashtags_call ==
    /\ pc = "format"
    /\ ret' = [kind |-> "formatted", value |-> format_hashtags(req.hashtags)]
    /\ pc' = "formatted"
    /\ UNCHANGED <<rt, req, brand_voice, content, hashtags, image_prompt, image_path,
                   draft, files, clock, posts, apc, n, guidelines, session>>

InitFormat ==
    /\ InitCommon
    /\ req \in [call : {"format_hashtags"}, hashtags : FormatLists]
    /\ rt = NoWrapper
    /\ pc = "format"
    /\ apc = 0
    /\ guidelines = FullGuidelines

NextFormat == format_hashtags_call

SpecFormat == InitFormat /\ [][NextFormat]_vars

(***************************************************************************)
(* get_character_count_status of the review UI, on its own.  limit * 0.9   *)
(* is a float in the source; for the limits used here count > limit * 0.9  *)
(* holds exactly when 10 * count > 9 * limit.                              *)
(***************************************************************************)
\* a counter for which content of exactly `limit` characters is an error
get_character_count_status_strict(text, limit) ==
    LET count == StrLen(text)
    IN  IF count >= limit THEN [count |-> count, status |-> "error"]
        ELSE IF limit > count /\ 10 * count > 9 * limit
        THEN [count |-> count, status |-> "warning"]
        ELSE [count |-> count, status |-> "ok"]

\* get_character_count_status(content, limit)
get_character_count_status(text, limit) ==
    LET count == StrLen(text)
    IN  IF count > limit THEN [count |-> count, status |-> "error"]
        ELSE IF limit > count /\ 10 * count > 9 * limit
        THEN [count |-> count, status |-> "warning"]
        ELSE [count |-> count, status |-> "ok"]

\* the limits: every small one, and those of the platforms
StatusLimits == 0..MaxStatusLimit \cup {PLATFORM_SPECS[p].char_limit : p \in Platforms}

\* the content lengths tried with a limit: all of them for a small limit, and
\* those around nine tenths of the limit and around the limit
StatusCounts(limit) ==
    (IF limit <= MaxStatusLimit THEN 0..(limit + 2) ELSE {})
    \cup {c \in {0, (9 * limit) \div 10 - 1, (9 * limit) \div 10,
                 (9 * limit) \div 10 + 1, limit - 1, limit, limit + 1} : c >= 0}

get_character_count_status_call ==
    /\ pc = "status"
    /\ ret' = [kind |-> "status",
               value |-> get_character_count_status(req.content, req.limit)]
    /\ pc' = "status_returned"
    /\ UNCHANGED <<rt, req, brand_voice, content, hashtags, image_prompt, image_path,
                   draft, files, clock, posts, apc, n, guidelines, session>>

InitStatus ==
    /\ InitCommon
    /\ \E limit \in StatusLimits : \E count \in StatusCounts(limit) :
          req = [call |-> "get_character_count_status",
                 content |-> Chars("content", count), limit |-> limit]
    /\ rt = NoWrapper
    /\ pc = "status"
    /\ apc = 0
    /\ guidelines = FullGuidelines

NextStatus == get_character_count_status_call

SpecStatus == InitStatus /\ [][NextStatus]_vars

(***************************************************************************)
(* initialize_session_state, called at every rerun of the UI script on a   *)
(* session that holds any of the four keys.  The constructors              *)
(* SocialMediaGenerator() and BrandVoice() may raise (no API key, no       *)
(* guidelines file), which ends the call where it stands.                  *)
(***************************************************************************)
\* the identity of an object constructed during the call number `call`
NewObject(call, key) == 10 * call + (IF key = "generator" THEN 1 ELSE 2)

\* the dicts a session may hold under generated_posts
SessionPostDicts ==
    {[p \in ps |-> [content |-> Chars(p, 1)]] : ps \in SUBSET {"linkedin", "twitter"}}

\* the sessions initialize_session_state may find
Sessions ==
    {[keys |-> keys,
      generated_posts |-> IF "generated_posts" \in keys THEN d ELSE <<>>,
      generator |-> IF "generator" \in keys THEN 1 ELSE 0,
      brand_voice |-> IF "brand_voice" \in keys THEN 2 ELSE 0,
      generation_in_progress |-> "generation_in_progress" \in keys /\ flag] :
        keys \in SUBSET SessionKeys, d \in SessionPostDicts, flag \in BOOLEAN}

initialize_session_state ==
    /\ pc = "session"
    /\ apc < MaxInitCalls
    /\ \E generator_ok, brand_voice_ok \in BOOLEAN :
          LET s1 == init_generated_posts(session)
              generator_raises == "generator" \notin s1.keys /\ ~generator_ok
              s2 == IF generator_raises THEN s1
                    ELSE init_generator(s1, NewObject(apc + 1, "generator"))
              brand_voice_raises ==
                  ~generator_raises /\ "brand_voice" \notin s2.keys /\ ~brand_voice_ok
              raises == generator_raises \/ brand_voice_raises
              s3 == IF raises THEN s2
                    ELSE init_brand_voice(s2, NewObject(apc + 1, "brand_voice"))
              s4 == IF raises THEN s3 ELSE init_generation_in_progress(s3)
          IN  /\ session' = s4
              /\ ret' = [kind |-> IF raises THEN "raised" ELSE "returned",
                         before |-> session]
    /\ apc' = apc + 1
    /\ UNCHANGED <<rt, req, pc, brand_voice, content, hashtags, image_prompt,
                   image_path, draft, files, clock, posts, n, guidelines>>

InitSession ==
    /\ InitLocals
    /\ session \in Sessions
    /\ req = [call |-> "initialize_session_state"]
    /\ rt = NoWrapper
    /\ pc = "session"
    /\ apc = 0
    /\ guidelines = FullGuidelines

NextSession == initialize_session_state

SpecSession == InitSession /\ [][NextSession]_vars

(***************************************************************************)
(* The review UI: generate_posts for the platforms ticked in the sidebar,  *)
(* then `Regenerate Post` on the tab of a generated post.  req holds the   *)
(* handler under way and the arguments of its generate_post call; posts is *)
(* the local dict of generate_posts; submitted keeps the prompt typed in   *)
(* the sidebar.                                                            *)
(***************************************************************************)
\* the prompt field: a topic, or blanks
UIPrompts == {Text("topic"), Chars(" ", 1)}

\* the platforms ticked, in the order of the sidebar
UISelections == {<<>>, <<"twitter">>, <<"linkedin", "twitter">>}

\* dict.get(key, default) on the metadata of a post
metadata_get_user_prompt(metadata, default) ==
    IF "user_prompt" \in DOMAIN metadata THEN metadata.user_prompt ELSE default

\* generate_posts up to its first generate_post call
generate_posts ==
    /\ req.call = "ui"
    /\ pc = "ui_idle"
    /\ req.handler \in {"none", "rejected"}
    /\ \E user_prompt \in UIPrompts, selected_platforms \in UISelections,
          use_brand_voice \in BOOLEAN, include_hashtags \in BOOLEAN :
          IF selected_platforms = <<>> \/ Strip(user_prompt) = <<>>
          THEN /\ req' = [req EXCEPT !.handler = "rejected"]
               /\ UNCHANGED <<pc, session, posts, apc>>
          ELSE /\ session' = [session EXCEPT !.generation_in_progress = TRUE]
               /\ req' = [call |-> "ui", handler |-> "generate_posts",
                          platform |-> selected_platforms[1],
                          brand_voice |-> IF use_brand_voice THEN get_brand_voice("")
                                          ELSE <<>>,
                          include_hashtags |-> include_hashtags,
                          user_prompt |-> user_prompt, submitted |-> user_prompt,
                          selected_platforms |-> selected_platforms,
                          regenerations |-> 0]
               /\ posts' = <<>>
               /\ apc' = 1
               /\ pc' = "start"
    /\ UNCHANGED <<rt, brand_voice, content, hashtags, image_prompt, image_path,
                   draft, files, clock, ret, n, guidelines>>

\* one turn of the loop of generate_posts ends: the post is put into the
\* local dict or the failure is shown; after the last turn the dict replaces
\* st.session_state.generated_posts and the flag is cleared
generate_posts_next ==
    /\ req.call = "ui"
    /\ req.handler = "generate_posts"
    /\ pc \in {"returned", "raised"}
    /\ LET generated_posts == IF ret.kind = "returned"
                              THEN (req.platform :> ret.post) @@ posts
                              ELSE posts
       IN  IF ret.kind = "raised" /\ ~Catches({"Exception"}, ret.error)
           THEN /\ session' = [session EXCEPT !.generation_in_progress = FALSE]
                /\ pc' = "ui_raised"
                /\ UNCHANGED <<req, posts, apc>>
           ELSE IF apc < Len(req.selected_platforms)
           THEN /\ posts' = generated_posts
                /\ apc' = apc + 1
                /\ req' = [req EXCEPT !.platform = req.selected_platforms[apc + 1]]
                /\ pc' = "start"
                /\ UNCHANGED session
           ELSE /\ posts' = generated_posts
                /\ session' = [session EXCEPT !.generated_posts = generated_posts,
                                              !.generation_in_progress = FALSE]
                /\ req' = [req EXCEPT !.handler = "generated"]
                /\ pc' = "ui_idle"
                /\ UNCHANGED apc
    /\ UNCHANGED <<rt, brand_voice, content, hashtags, image_prompt, image_path,
                   draft, files, clock, ret, n, guidelines>>

\* regenerate_post(platform) up to its generate_post call, pressed on the tab
\* of a post in st.session_state.generated_posts
regenerate_post ==
    /\ req.call = "ui"
    /\ pc = "ui_idle"
    /\ req.handler \in {"generated", "regenerated", "regeneration_failed"}
    /\ req.regenerations < MaxRegenerations
    /\ \E platform \in DOMAIN session.generated_posts :
          LET original_prompt ==
                  metadata_get_user_prompt(session.generated_posts[platform].metadata, <<>>)
          IN  req' = [req EXCEPT !.handler = "regenerate_post",
                                 !.platform = platform,
                                 !.user_prompt = original_prompt,
                                 !.brand_voice = <<>>,
                                 !.include_hashtags = TRUE,
                                 !.regenerations = @ + 1]
    /\ pc' = "start"
    /\ UNCHANGED <<rt, brand_voice, content, hashtags, image_prompt, image_path,
                   draft, files, clock, ret, posts, apc, n, guidelines, session>>

\* regenerate_post after generate_post: the new post replaces the entry of
\* the platform, or the failure is shown
regenerate_post_end ==
    /\ req.call = "ui"
    /\ req.handler = "regenerate_post"
    /\ pc \in {"returned", "raised"}
    /\ IF ret.kind = "returned"
       THEN /\ session' = [session EXCEPT
                              !.generated_posts = [@ EXCEPT ![req.platform] = ret.post]]
            /\ req' = [req EXCEPT !.handler = "regenerated"]
            /\ pc' = "ui_idle"
       ELSE IF Catches({"Exception"}, ret.error)
       THEN /\ req' = [req EXCEPT !.handler = "regeneration_failed"]
            /\ pc' = "ui_idle"
            /\ UNCHANGED session
       ELSE /\ pc' = "ui_raised"
            /\ UNCHANGED <<req, session>>
    /\ UNCHANGED <<rt, brand_voice, content, hashtags, image_prompt, image_path,
                   draft, files, clock, ret, posts, apc, n, guidelines>>

\* the session after initialize_session_state, nothing generated yet
InitUI ==
    /\ InitLocals
    /\ session = init_generation_in_progress(
                     init_brand_voice(
                        init_generator(init_generated_posts(NoSession),
                                       NewObject(1, "generator")),
                        NewObject(1, "brand_voice")))
    /\ req = [call |-> "ui", handler |-> "none", platform |-> "", brand_voice |-> <<>>,
              include_hashtags |-> FALSE, user_prompt |-> <<>>, submitted |-> <<>>,
              selected_platforms |-> <<>>, regenerations |-> 0]
    /\ rt = NoWrapper
    /\ pc = "ui_idle"
    /\ apc = 0
    /\ guidelines = FullGuidelines

NextUI ==
    \/ NextPost
    \/ generate_posts
    \/ generate_posts_next
    \/ regenerate_post
    \/ regenerate_post_end

SpecUI == InitUI /\ [][NextUI]_vars

(***************************************************************************)
(* Properties.                                                             *)
(***************************************************************************)
TextStages == {"_generate_content", "_generate_hashtags", "_create_image_prompt"}

\* the place of a stage in generate_post
StageRank(func) ==
    CASE func = "_generate_content" -> 1
      [] func = "_generate_hashtags" -> 2
      [] func = "_create_image_prompt" -> 3
      [] func = "_generate_image" -> 4

\* the stage `func` has just returned
StageReturned(func) == rt.func = func /\ rt.state = "returned"

\* every invocation of the wrapped operation raised an exception the wrapper
\* catches
AllCaught ==
    \A i \in 1..Len(rt.log) : rt.log[i].kind # "ok" /\ Catches(rt.exceptions, rt.log[i])

\* C1: whatever the lengths of the draft and of the rewrite, the string
\* _generate_content returns (the content before hashtags are appended) is no
\* longer than the platform's char_limit, by acceptance, by the shortening call
\* or by truncation.
C1_ContentWithinLimit ==
    StageReturned("_generate_content") =>
        /\ StrLen(rt.value) <= Spec_(CurPlatform).char_limit
        /\ content = rt.value

\* C1 witness: the truncation fallback returned a string of exactly char_limit
\* characters
C1_Witness ==
    /\ StageReturned("_generate_content")
    /\ Contains(rt.value, ".")
    /\ StrLen(rt.value) = Spec_(CurPlatform).char_limit

\* C2: the content field of every post generate_post returns, with or without
\* hashtags, is no longer than the char_limit of its platform.
C2_PostContentWithinLimit ==
    ret.kind = "returned" =>
        StrLen(ret.post.content) <= Spec_(ret.post.platform).char_limit

\* C3: an operation that fails on every attempt is invoked exactly
\* max_retries + 1 times, for every max_retries >= 0, and the wrapper then
\* raises the exception of the last attempt itself.
C3_RetryExhaustion ==
    /\ Len(rt.log) <= rt.max_retries + 1
    /\ (rt.state = "raised" /\ AllCaught) =>
          /\ Len(rt.log) = rt.max_retries + 1
          /\ rt.raised = rt.log[Len(rt.log)]

\* C3 witness: max_retries = 2, three failed attempts, the third error raised
C3_Witness ==
    /\ rt.state = "raised" /\ AllCaught
    /\ rt.max_retries = 2 /\ Len(rt.log) = 3

\* C4: an operation that fails k <= max_retries times and then succeeds is
\* invoked exactly k + 1 times and the wrapper returns its value untouched;
\* nothing is attempted after the first success.
C4_RetryEventualSuccess ==
    /\ \A i \in 1..(Len(rt.log) - 1) : rt.log[i].kind # "ok"
    /\ rt.state = "returned" =>
          /\ rt.log[Len(rt.log)].kind = "ok"
          /\ Len(rt.log) = rt.attempt + 1
          /\ rt.attempt <= rt.max_retries
          /\ rt.value = SuccessValue(Len(rt.log))

\* C4 witness: max_retries = 3, two failures, then the success is returned
C4_Witness ==
    /\ rt.state = "returned" /\ rt.max_retries = 3
    /\ Len(rt.log) = 3 /\ rt.value = SuccessValue(3)

\* C5: generate_all_platforms never raises because a platform's pipeline
\* raised; it calls generate_post exactly once for every configured platform,
\* and its mapping has a key for every platform, null exactly for the platforms
\* whose generate_post raised and that platform's post otherwise.
C5_PartialFailureIsolation ==
    /\ pc # "all_raised"
    /\ \A p \in Platforms : n.gp[p] <= 1
    /\ pc = "all_returned" =>
          /\ DOMAIN posts = Platforms
          /\ \A p \in Platforms :
                /\ n.gp[p] = 1
                /\ posts[p].none <=> p \in n.failed
                /\ ~posts[p].none => posts[p].post.platform = p

\* C5 witness: the second platform failed, the others, before and after it,
\* have their posts
C5_Witness ==
    /\ pc = "all_returned"
    /\ posts["twitter"].none
    /\ \A p \in Platforms \ {"twitter"} : ~posts[p].none

\* every call of the image model of this run failed
ImageAlwaysFailed == n.image_calls > 0 /\ n.image_failures = n.image_calls

\* the placeholder of the post and its prompt file are on disk
PlaceholderOnDisk(platform, path, prompt) ==
    /\ path.name = "_placeholder"
    /\ \E f \in files : f.path = path /\ f.size = Spec_(platform).image_size
    /\ \E g \in files :
          /\ g.path = prompt_path(path) /\ g.path # path
          /\ g.platform = platform
          /\ g.dimensions = Spec_(platform).image_size
          /\ g.prompt = prompt

\* C6: if the image model fails on every call while the text stages succeed,
\* generate_post still returns a post, whose image_path names an existing
\* placeholder file of the platform's image size, with a prompt file next to it
\* that records platform, dimensions and the prompt.
C6_PlaceholderFallback ==
    ImageAlwaysFailed =>
        /\ pc \in {"assemble", "returned", "all_returned"}
        /\ PlaceholderOnDisk(CurPlatform, image_path, image_prompt)
        /\ pc = "returned" =>
              /\ ret.kind = "returned"
              /\ ret.post.image_path = image_path
              /\ ret.post.image_prompt = image_prompt

\* C6 witness: the image model's call raised and the post was returned
C6_Witness ==
    /\ pc = "returned" /\ ret.kind = "returned"
    /\ ImageAlwaysFailed /\ n.image_outcome = "transport_error"

\* C7: a failed image-model call is retried (3 retries, up to 4 attempts), and
\* the placeholder is built only once those are exhausted, never after the
\* first failed attempt.
C7_PlaceholderAfterRetries ==
    n.placeholders > 0 => n.image_calls = StageMaxRetries + 1

C10_HashtagCap ==
    /\ StageReturned("_generate_hashtags") =>
          /\ Len(rt.value) <= Spec_(CurPlatform).max_hashtags
          /\ n.items > Spec_(CurPlatform).max_hashtags =>
                Len(rt.value) = Spec_(CurPlatform).max_hashtags
          /\ hashtags = rt.value
    /\ ret.kind = "returned" =>
          /\ Len(ret.post.hashtags) <= Spec_(ret.post.platform).max_hashtags
          /\ n.items > Spec_(ret.post.platform).max_hashtags =>
                Len(ret.post.hashtags) = Spec_(ret.post.platform).max_hashtags

\* C10 witness: the model wrote one item too many and the post keeps
\* max_hashtags of them
C10_Witness ==
    /\ ret.kind = "returned"
    /\ n.items > Spec_(ret.post.platform).max_hashtags
    /\ Len(ret.post.hashtags) = Spec_(ret.post.platform).max_hashtags

\* C11: generate_post with a platform key that is not configured raises the
\* unsupported-platform ValueError at once: no text-model or image-model call
\* has been made, no retry wrapper was entered, the brand voice was not
\* resolved, and generate_post was called only once.
C11_UnsupportedPlatform ==
    (Single /\ req.platform \notin Platforms /\ pc # "start") =>
        /\ pc = "raised"
        /\ ret = [kind |-> "raised",
                  error |-> [kind |-> "ValueError", site |-> "generate_post", id |-> 0]]
        /\ n.ran = {} /\ n.image_calls = 0 /\ rt = NoWrapper
        /\ n.bv_calls = 0 /\ brand_voice = req.brand_voice
        /\ n.gp[req.platform] = 1
        /\ files = {}

\* C11 witness: the call with the unknown key and no brand_voice has raised
C11_Witness ==
    /\ pc = "raised" /\ req.platform = InvalidPlatform /\ req.brand_voice = <<>>
    /\ ret.error.site = "generate_post"

\* C12: a post generate_post returns for include_hashtags = false has an empty
\* hashtags list and a content without any `#` character; the hashtag stage
\* was not invoked and the content is what the content stage returned.
C12_NoHashtagsWhenDisabled ==
    (ret.kind = "returned" /\ ~req.include_hashtags) =>
        /\ ret.post.hashtags = <<>>
        /\ "_generate_hashtags" \notin n.ran
        /\ ~Contains(ret.post.content, "#")

\* the tag without its leading `#` characters
Unprefixed(tag) == LStripSet(tag, {"#"})

\* the string starts with exactly one `#`
OneHashPrefix(str) ==
    /\ Len(str) >= 1 /\ str[1] = [src |-> "#", n |-> 1]
    /\ Len(str) >= 2 => str[2].src # "#"

\* C13: format_hashtags writes the tags in input order, separated by single
\* spaces, each with exactly one `#` in front of it however many `#` it
\* started with, so the result equals that of formatting the same tags with
\* their leading `#` removed.
C13_FormatHashtags ==
    pc = "formatted" =>
        LET tags == req.hashtags
            pieces == Split(ret.value, " ")
        IN  /\ tags = <<>> => ret.value = <<>>
            /\ tags # <<>> =>
                  /\ Len(pieces) = Len(tags)
                  /\ \A i \in 1..Len(tags) :
                        /\ OneHashPrefix(pieces[i])
                        /\ Tail(pieces[i]) = Unprefixed(tags[i])
            /\ ret.value = format_hashtags([i \in 1..Len(tags) |-> Unprefixed(tags[i])])

\* C13 witness: a list of a tag with two `#`, a tag with one and a bare tag
\* has been formatted
C13_Witness ==
    /\ pc = "formatted"
    /\ req.hashtags = <<FormatTag(2, "tag1"), FormatTag(1, "tag2"), FormatTag(0, "tag1")>>
    /\ ret.value = Chars("#", 1) \o Chars("tag1", TagLen) \o Chars(" ", 1)
                    \o Chars("#", 1) \o Chars("tag2", TagLen) \o Chars(" ", 1)
                    \o Chars("#", 1) \o Chars("tag1", TagLen)

\* whether a file of that path is on disk
Exists(path) == \E f \in files : f.path = path

\* C14: the image_path of every post generate_post returns names a file that
\* is on disk when the post is returned, a generated image or a placeholder;
\* the path the image stage returns is never that of a file not yet written.
C14_ImagePathExists ==
    /\ StageReturned("_generate_image") => Exists(rt.value)
    /\ ret.kind = "returned" =>
          /\ ret.post.image_path # NoPath
          /\ Exists(ret.post.image_path)
          /\ ret.post.image_path.ext = ".png"

\* C14 witness: a post with a generated image, resized to the platform's
\* size, has been returned
C14_Witness ==
    /\ ret.kind = "returned" /\ n.image_outcome = "image_other_size"
    /\ ret.post.image_path.name = ""
    /\ \E f \in files : f.path = ret.post.image_path
                          /\ f.size = Spec_(ret.post.platform).image_size

C16_BrandVoiceResolution ==
    /\ n.bv_calls <= 1
    /\ (pc = "returned" /\ ret.kind = "returned") =>
          LET voice == ret.post.metadata.brand_voice
          IN  /\ n.voice = voice
              /\ req.brand_voice # <<>> => voice = req.brand_voice /\ n.bv_calls = 0
              /\ req.brand_voice = <<>> =>
                    /\ voice = get_brand_voice(ret.post.platform)
                    /\ n.bv_calls = 1
              /\ \A i \in 1..Len(posts) :
                    posts[i].platform = ret.post.platform =>
                        posts[i].metadata.brand_voice = voice

\* C16 witness: a second post for linkedin, without a voice of the caller's,
\* carries the voice composed of primary voice, keywords and the platform's
\* preferences
C16_Witness ==
    /\ pc = "returned" /\ ret.kind = "returned" /\ req.brand_voice = <<>>
    /\ guidelines = FullGuidelines
    /\ Len(posts) = 1 /\ posts[1].platform = "linkedin" /\ ret.post.platform = "linkedin"
    /\ Len(ret.post.metadata.brand_voice) > 4

\* C17: constructing BrandVoice fails in each load-failure case with the
\* documented error and leaves no guidelines: FileNotFoundError for a missing
\* file, ValueError 'Invalid YAML' for malformed YAML, ValueError 'must be a
\* YAML dictionary' for a document whose top level is not a mapping.
C17_LoadFailures ==
    (pc # "construct" /\ req.file.state \in {"missing", "malformed", "list", "scalar", "null"}) =>
        /\ pc = "construct_raised" /\ ret.kind = "raised"
        /\ guidelines = NoGuidelines
        /\ req.file.state = "missing" => ret.error.kind = "FileNotFoundError"
        /\ req.file.state = "malformed" =>
              /\ ret.error.kind = "ValueError"
              /\ ret.error.message[1] = "Invalid YAML in brand guidelines file"
        /\ req.file.state \in {"list", "scalar", "null"} =>
              /\ ret.error.kind = "ValueError"
              /\ \E i \in 1..Len(ret.error.message) :
                    ret.error.message[i] = "Brand guidelines must be a YAML dictionary"

RECURSIVE Pow(_, _)
\* b to the power e
Pow(b, e) == IF e = 0 THEN 1 ELSE b * Pow(b, e - 1)

\* C18: the sleep after failed attempt a (from 0) lasts
\* initial_delay * exponential_base^a; every failed attempt but the last
\* permitted one is followed by a sleep, so a call that exhausts its retries
\* has slept max_retries times and one that succeeds at attempt k + 1 has
\* slept k times.
C18_BackoffSleeps ==
    /\ \A i \in 1..Len(rt.sleeps) :
          /\ rt.sleeps[i] = rt.initial_delay * Pow(rt.exponential_base, i - 1)
          /\ rt.log[i].kind # "ok"
    /\ (rt.state = "running" /\ AllCaught) => Len(rt.sleeps) = Len(rt.log)
    /\ (rt.state = "raised" /\ AllCaught) => Len(rt.sleeps) = rt.max_retries
    /\ rt.state = "returned" => Len(rt.sleeps) = Len(rt.log) - 1

\* C18 witness: initial_delay 2, base 3, max_retries 3, exhausted after
\* sleeping 2, 6 and 18 seconds
C18_Witness ==
    /\ rt.state = "raised" /\ AllCaught /\ Len(rt.log) = 4
    /\ rt.sleeps = <<2, 6, 18>>

\* the string neither starts nor ends with whitespace
NoSurroundingWhitespace(str) ==
    str # <<>> => Head(str).src \notin Whitespace /\ str[Len(str)].src \notin Whitespace

\* C19: _generate_hashtags returns the first max_hashtags items of the
\* model's comma-separated list, in the model's order, and every item it
\* returns is a bare hashtag: no `#` in it and no whitespace at either end.
C19_HashtagParsing ==
    (StageReturned("_generate_hashtags") /\ n.items > 0) =>
        /\ Len(rt.value) = IF n.items <= Spec_(CurPlatform).max_hashtags
                           THEN n.items ELSE Spec_(CurPlatform).max_hashtags
        /\ \A i \in 1..Len(rt.value) :
              /\ Contains(rt.value[i], TagNames[i])
              /\ ~Contains(rt.value[i], "#")
              /\ NoSurroundingWhitespace(rt.value[i])

\* the answer of the call is longer than the platform's char_limit
OverLimit(call) == call.ok /\ StrLen(call.text) > Spec_(CurPlatform).char_limit

\* C20: within one invocation of _generate_content the shortening call is issued if and only if
\* the draft is strictly longer than char_limit: a draft of at most char_limit
\* characters (exactly char_limit included) ends the stage, returned as it is,
\* with no further text-model call, and an over-limit draft is followed by
\* exactly one shortening call.
C20_ShortenIffOverLimit ==
    rt.func = "_generate_content" =>
        LET calls == n.calls
        IN  /\ \A i \in 1..Len(calls) :
                  calls[i].site = "shorten" <=>
                      (i > 1 /\ calls[i - 1].site = "draft" /\ OverLimit(calls[i - 1]))
            /\ \A i \in 1..Len(calls) :
                  (calls[i].site = "draft" /\ OverLimit(calls[i])) =>
                      IF i = Len(calls) THEN pc = "shorten"
                      ELSE calls[i + 1].site = "shorten"
            /\ \A i \in 1..Len(calls) :
                  (calls[i].site = "draft" /\ calls[i].ok /\ ~OverLimit(calls[i])) =>
                      /\ i = Len(calls)
                      /\ StageReturned("_generate_content")
                      /\ rt.value = calls[i].text
            /\ pc = "shorten" => OverLimit(calls[Len(calls)])
            /\ StageReturned("_generate_content") =>
                  Len(calls) = IF OverLimit(calls[1]) THEN 2 ELSE 1

\* C20 witness: a draft of exactly char_limit characters was returned after a
\* single text-model call
C20_Witness ==
    /\ StageReturned("_generate_content")
    /\ Len(n.calls) = 1
    /\ StrLen(rt.value) = Spec_(CurPlatform).char_limit

\* C21: when the rewrite is still longer than char_limit, _generate_content
\* returns the first char_limit - 3 characters of the rewrite (not of the
\* draft) followed by '...', char_limit characters in all; a rewrite within
\* the limit is returned unchanged.
C21_TruncatedRewrite ==
    (StageReturned("_generate_content") /\ Len(n.calls) = 2) =>
        LET rewrite == n.calls[2].text
            char_limit == Spec_(CurPlatform).char_limit
        IN  IF StrLen(rewrite) > char_limit
            THEN /\ rt.value = Prefix(rewrite, char_limit - 3) \o Chars(".", 3)
                 /\ StrLen(rt.value) = char_limit
                 /\ ~Contains(rt.value, "draft")
            ELSE rt.value = rewrite

\* C21 witness: a rewrite ten times the limit was cut to char_limit
\* characters ending in the ellipsis
C21_Witness ==
    /\ StageReturned("_generate_content") /\ Len(n.calls) = 2
    /\ StrLen(n.calls[2].text) = 10 * Spec_(CurPlatform).char_limit
    /\ StrLen(rt.value) = Spec_(CurPlatform).char_limit
    /\ rt.value[Len(rt.value)] = [src |-> ".", n |-> 3]

\* the steps of a complete run of generate_post, in order
ExpectedOrder ==
    <<"validate", "brand_voice", "_generate_content">>
    \o (IF req.include_hashtags THEN <<"_generate_hashtags">> ELSE <<>>)
    \o <<"_create_image_prompt", "_generate_image", "assemble">>

\* C22: the steps of every generate_post run begin in the order validation,
\* brand-voice resolution, content, hashtags (only if requested), image
\* prompt, image, assembly, each after the one before it has returned, and the
\* image prompt is built from the content with the hashtags already appended.
C22_StageOrder ==
    /\ Len(n.order) <= Len(ExpectedOrder)
    /\ n.order = SubSeq(ExpectedOrder, 1, Len(n.order))
    /\ ~n.early
    /\ (pc = "returned" /\ ret.kind = "returned") =>
          /\ n.order = ExpectedOrder
          /\ n.prompt_content = ret.post.content
          /\ req.include_hashtags =>
                n.prompt_content[Len(n.prompt_content) - Len(format_hashtags(hashtags))]
                    = [src |-> "\n", n |-> 2]

\* C22 witness: a run with hashtags has returned its post
C22_Witness ==
    /\ pc = "returned" /\ ret.kind = "returned" /\ req.include_hashtags
    /\ Len(n.order) = 7 /\ Len(hashtags) = 2

\* the number of attempts of the log that failed at the call `site`
RECURSIVE FailuresAt(_, _)
FailuresAt(log, site) ==
    IF log = <<>> THEN 0
    ELSE (IF Head(log).kind # "ok" /\ Head(log).site = site THEN 1 ELSE 0)
         + FailuresAt(Tail(log), site)

\* C23: the shortening call is not retried on its own: when it raises, the
\* retry of _generate_content starts over with a new draft call; failed draft
\* and failed shortening calls use up the same 4 attempts, and one invocation
\* of _generate_content makes at most 8 text-model calls.
C23_SharedRetryBudget ==
    rt.func = "_generate_content" =>
        /\ n.text_calls <= 2 * (StageMaxRetries + 1)
        /\ FailuresAt(rt.log, "draft") + FailuresAt(rt.log, "shorten")
              <= StageMaxRetries + 1
        /\ n.calls # <<>> => n.calls[1].site = "draft" /\ Len(n.calls) <= 2
        /\ (rt.state = "running" /\ Len(n.calls) = 2) =>
              /\ pc = "content" /\ ~n.calls[2].ok
              /\ rt.attempt = Len(rt.log)
              /\ rt.log[Len(rt.log)].site = "shorten"
        /\ rt.state = "raised" =>
              FailuresAt(rt.log, "draft") + FailuresAt(rt.log, "shorten")
                  = StageMaxRetries + 1
        /\ n.text_calls = FailuresAt(rt.log, "draft") + 2 * FailuresAt(rt.log, "shorten")
                          + (IF rt.state = "returned" \/ pc = "shorten"
                             THEN Len(n.calls) ELSE 0)

\* C23 witness: three failed shortening calls, then a fourth over-limit draft
\* and its rewrite: 8 text-model calls, returned
C23_Witness ==
    /\ StageReturned("_generate_content")
    /\ n.text_calls = 8 /\ FailuresAt(rt.log, "shorten") = 3

C25_InitializeIdempotent ==
    ret.kind \in {"returned", "raised"} =>
        LET before == ret.before
        IN  /\ before.keys \subseteq session.keys
            /\ ret.kind = "returned" => session.keys = SessionKeys
            /\ "generated_posts" \in session.keys =>
                  session.generated_posts =
                      IF "generated_posts" \in before.keys THEN before.generated_posts
                      ELSE <<>>
            /\ "generator" \in session.keys =>
                  IF "generator" \in before.keys
                  THEN session.generator = before.generator
                  ELSE session.generator = NewObject(apc, "generator")
            /\ "brand_voice" \in session.keys =>
                  IF "brand_voice" \in before.keys
                  THEN session.brand_voice = before.brand_voice
                  ELSE session.brand_voice = NewObject(apc, "brand_voice")
            /\ "generation_in_progress" \in session.keys =>
                  session.generation_in_progress =
                      ("generation_in_progress" \in before.keys
                          /\ before.generation_in_progress)

\* C25 witness: the second call found the posts, the two objects and a raised
\* flag and left them as they were
C25_Witness ==
    /\ ret.kind = "returned" /\ apc = 2
    /\ ret.before.keys = SessionKeys /\ session = ret.before
    /\ session.generation_in_progress /\ session.generator = 1
    /\ DOMAIN session.generated_posts = {"linkedin"}

\* e is of none of the kinds the wrapper retries
OutsideRetryable(e) ==
    e.kind # "ok" /\ \A cls \in rt.exceptions : ~IsInstance(e.kind, cls)

\* C26: an error of a kind outside the wrapper's retryable kinds propagates at
\* once: it is the last invocation of the operation, it is the error the
\* wrapper raises, no sleep follows it (raised by the first invocation, the
\* operation ran exactly once and nothing slept); an error of a retryable
\* kind with retries left is followed by a sleep and another invocation.
C26_NonRetryablePropagates ==
    rt.func = "func" =>
        /\ \A i \in 1..Len(rt.log) :
              OutsideRetryable(rt.log[i]) =>
                  /\ i = Len(rt.log)
                  /\ rt.state = "raised"
                  /\ rt.raised = rt.log[i]
                  /\ Len(rt.sleeps) = i - 1
        /\ (Len(rt.log) >= 1 /\ OutsideRetryable(rt.log[1])) =>
              (Len(rt.log) = 1 /\ rt.sleeps = <<>>)
        /\ \A i \in 1..Len(rt.log) :
              (rt.log[i].kind # "ok" /\ ~OutsideRetryable(rt.log[i])
                  /\ i <= rt.max_retries) =>
                  /\ Len(rt.sleeps) >= i
                  /\ rt.state = "running" \/ Len(rt.log) > i

\* C26 witness: a wrapper retrying ValueError only, with retries left, whose
\* operation raised an APIError at its first invocation
C26_Witness ==
    /\ rt.func = "func" /\ rt.exceptions = {"ValueError"} /\ rt.max_retries = 3
    /\ Len(rt.log) = 1 /\ rt.log[1].kind = "APIError"
    /\ rt.state = "raised" /\ rt.sleeps = <<>>

\* the call under way has returned or raised
Finished ==
    IF req.call = "generate_all_platforms" THEN pc \in {"all_returned", "all_raised"}
    ELSE pc \in {"returned", "raised"}

\* how far a generate_post run has come
Progress(p) ==
    CASE p = "start" -> 0
      [] p \in {"content", "shorten"} -> 1
      [] p = "hashtags" -> 2
      [] p = "image_prompt" -> 3
      [] p = "image" -> 4
      [] p = "assemble" -> 5
      [] p \in {"returned", "raised"} -> 6
      [] OTHER -> 7

\* C27: when every model call made returns or raises and every sleep ends,
\* every generate_post and every generate_all_platforms call returns or
\* raises; on the way no retry-wrapped stage invokes its operation more
\* than 4 times, and a run never goes back to a stage it has left (the
\* fan-out never goes back to a platform it has handled).
C27_Terminates ==
    /\ <>Finished
    /\ (pc = "start") ~> (pc \in {"returned", "raised"})
    /\ [](Len(rt.log) <= StageMaxRetries + 1 /\ rt.attempt <= StageMaxRetries)
    /\ [][\/ apc' > apc
          \/ apc' = apc /\ Progress(pc') >= Progress(pc)]_vars

\* C27 witness: a fan-out that has returned after a platform used up the 4
\* attempts of its content stage and another platform got its post
C27_Witness ==
    /\ pc = "all_returned"
    /\ posts["linkedin"].none
    /\ ~posts["nextdoor"].none
    /\ n.gp["linkedin"] = 1 /\ n.gp["nextdoor"] = 1

\* the wrapped stages of generate_post
Stages == TextStages \cup {"_generate_image"}

\* the initial_delay the decorator of a stage names
OwnInitialDelay(func) ==
    IF func = "_generate_image" THEN ImageInitialDelay ELSE TextInitialDelay

\* the model calls made by a stage, as named in its log
OwnSites(func) ==
    CASE func = "_generate_content" -> {"draft", "shorten", func}
      [] func = "_generate_hashtags" -> {"hashtags", func}
      [] func = "_create_image_prompt" -> {"image_prompt", func}
      [] OTHER -> ImageOutcomes \cup {func}

\* a step in which a stage begins leaves a wrapper in its first attempt (an
\* invocation still under way is not in the log yet), and the stage is a
\* later one than the stage before it
StageBeginsFresh ==
    (rt'.func # rt.func /\ rt'.func \in Stages) =>
        /\ Len(rt'.log) <= 1
        /\ rt'.attempt <= 1
        /\ rt'.sleeps \in {<<>>, <<OwnInitialDelay(rt'.func)>>}
        /\ rt.func \in Stages => StageRank(rt'.func) > StageRank(rt.func)

\* a step of a stage after the content stage neither goes back to it nor
\* starts the run again
ContentStageNotReentered ==
    pc \in {"hashtags", "image_prompt", "image", "assemble"} =>
        /\ pc' \notin {"start", "content", "shorten"}
        /\ draft' = draft
        /\ n'.gp = n.gp
        /\ \/ content' = content
           \/ pc = "hashtags" /\ content' = append_hashtags(content, hashtags')

\* C28: the retry state belongs to one stage invocation.  The wrapper of a
\* stage holds only that stage's invocations, counted from 1, and its sleeps
\* start at the stage's own initial delay; a stage that begins is in its
\* first attempt and has slept at most once, whatever the stage or the platform
\* before it used up; a run goes from a stage only to a later one, and once
\* the content stage has returned no failure or retry of the hashtag,
\* image-prompt or image stage calls the text model for content again: the
\* content changes only by the hashtags appended to it.
C28_RetryStateLocal ==
    /\ [](rt.func \in Stages =>
            /\ rt.initial_delay = OwnInitialDelay(rt.func)
            /\ \A i \in 1..Len(rt.log) :
                  rt.log[i].id = i /\ rt.log[i].site \in OwnSites(rt.func)
            /\ rt.attempt \in {Len(rt.log) - 1, Len(rt.log)}
            /\ Len(rt.sleeps) <= rt.attempt
            /\ \A k \in 1..Len(rt.sleeps) :
                  rt.sleeps[k] = OwnInitialDelay(rt.func) * Pow(rt.exponential_base, k - 1)
            /\ rt.delay = OwnInitialDelay(rt.func)
                            * Pow(rt.exponential_base, Len(rt.sleeps)))
    /\ [][StageBeginsFresh]_vars
    /\ [][ContentStageNotReentered]_vars

\* C28 witness: in the fan-out, the hashtag stage of a later platform has
\* just failed for the first time and slept its own initial delay, after the
\* content stage before it had been retried, and an earlier platform had
\* used up all its attempts
C28_Witness ==
    /\ req.call = "generate_all_platforms" /\ apc = 2
    /\ posts["linkedin"].none
    /\ rt.func = "_generate_hashtags" /\ rt.state = "running"
    /\ Len(rt.log) = 1 /\ rt.attempt = 1 /\ rt.sleeps = <<TextInitialDelay>>
    /\ n.ran = {"_generate_content", "_generate_hashtags"}
    /\ content # <<>>

\* C29: in every post generate_post returns, metadata.char_count is the
\* length of the content field, which ends with the hashtags appended when
\* they were requested; metadata.char_limit is the char_limit of the
\* platform's entry in PLATFORM_SPECS; platform is the platform requested.
C29_MetadataMatchesPost ==
    (pc = "returned" /\ ret.kind = "returned") =>
        LET post == ret.post
            appended == 2 + StrLen(format_hashtags(post.hashtags))
        IN  /\ post.metadata.char_count = StrLen(post.content)
            /\ post.metadata.char_limit = PLATFORM_SPECS[req.platform].char_limit
            /\ post.platform = req.platform
            /\ req.include_hashtags =>
                  /\ StrLen(post.content) >= appended
                  /\ post.content =
                        append_hashtags(Prefix(post.content, StrLen(post.content) - appended),
                                        post.hashtags)

\* C29 witness: a twitter post returned with two hashtags appended to a text
\* of 280 characters, counted as 291 with TagLen 3
C29_Witness ==
    /\ pc = "returned" /\ ret.kind = "returned" /\ req.platform = "twitter"
    /\ req.include_hashtags /\ Len(ret.post.hashtags) = 2
    /\ ret.post.metadata.char_count = 280 + 2 + 2 * (TagLen + 1) + 1
    /\ ret.post.metadata.char_limit = 280

\* C30: `Regenerate Post` on the tab of a platform calls generate_post for
\* that platform with the prompt that was submitted when the post under
\* review was generated.
C30_RegenerateWithOriginalTopic ==
    (req.call = "ui" /\ req.handler = "regenerate_post") =>
        /\ req.platform \in DOMAIN session.generated_posts
        /\ req.user_prompt = req.submitted

=============================================================================
